---- MODULE Spec2Model ----
(***************************************************************************)
(* Model of signia (src/src/signia/_core.py): the signature merge engine   *)
(* merge_signatures and the helpers it is built from.                      *)
(*                                                                         *)
(* A Parameter is a record [name, kind, default, annotation]; the absent   *)
(* default / annotation (Parameter.empty) is the value empty.  An          *)
(* OrderedDict is a sequence of <<key, value>> pairs in insertion order.   *)
(* merge_signatures is run one loop iteration per step; the parameters of  *)
(* the source being iterated are drawn one at a time, subject to what a    *)
(* Python function signature allows after the parameters already drawn.    *)
(***************************************************************************)
EXTENDS Integers, Sequences, FiniteSets, TLC

\* ---------------------------------------------------------------- bounds
\* Largest number of sources handed to one merge_signatures call.
MaxSources == 3
\* combine is called with at most MaxFunctions functions and the composite
\* at most MaxCalls times.
MaxFunctions == 2
MaxCalls == 2

\* Parameter names the sources draw from.
Names == {"x", "y"}

\* Default values and annotations a source may declare.
DefaultValues == {"1", "2"}
AnnotationValues == {"int", "str"}

\* -------------------------------------------------- inspect.Parameter
empty == "empty"

PARAMETER_KIND_ORDER ==
    << "POSITIONAL_ONLY", "POSITIONAL_OR_KEYWORD", "VAR_POSITIONAL",
       "KEYWORD_ONLY", "VAR_KEYWORD" >>

Kinds == { PARAMETER_KIND_ORDER[i] : i \in 1..Len(PARAMETER_KIND_ORDER) }

\* Integer value of a kind of inspect._ParameterKind (its place in the order).
KindValue(kind) ==
    CHOOSE i \in 1..Len(PARAMETER_KIND_ORDER) : PARAMETER_KIND_ORDER[i] = kind

VariadicKinds == {"VAR_POSITIONAL", "VAR_KEYWORD"}
PositionalKinds == {"POSITIONAL_ONLY", "POSITIONAL_OR_KEYWORD"}

\* Parameter.__init__ refuses a default on a variadic parameter.
ParameterValid(p) == ~(p.default # empty /\ p.kind \in VariadicKinds)

Parameters ==
    { p \in [ name : Names, kind : Kinds,
              default : {empty} \cup DefaultValues,
              annotation : {empty} \cup AnnotationValues ] : ParameterValid(p) }

\* Outcome of an operation that returns a Parameter or raises.
Returned(p) == [exc |-> "none", value |-> p]
Raised(type, p) == [exc |-> type, value |-> p]

\* Parameter.replace(default=..., annotation=...): builds a new Parameter,
\* which raises ValueError when a variadic parameter is given a default.
replace(p, default, annotation) ==
    LET q == [p EXCEPT !.default = default, !.annotation = annotation]
    IN  IF ParameterValid(q) THEN Returned(q) ELSE Raised("ValueError", p)

\* ------------------------------------------------------- OrderedDict
od_keys(od) == { od[i][1] : i \in 1..Len(od) }
od_has(od, key) == key \in od_keys(od)
od_get(od, key) == od[CHOOSE i \in 1..Len(od) : od[i][1] = key][2]
\* od[key] = value: an existing key keeps its place, a new key goes last.
od_set(od, key, value) ==
    IF od_has(od, key)
    THEN [ i \in 1..Len(od) |-> IF od[i][1] = key THEN <<key, value>> ELSE od[i] ]
    ELSE Append(od, <<key, value>>)
\* a deletion that leaves the entry where it was.
od_del_keeping(od, key) == od

\* del od[key]
od_del(od, key) == SelectSeq(od, LAMBDA kv : kv[1] # key)
od_values(od) == [ i \in 1..Len(od) |-> od[i][2] ]

\* ------------------------------------------- _merge_parameter_metadata
\* apply_policy with the policy ignored.
apply_policy_existing_first(existing, incoming, pol) == <<existing, incoming>>

apply_policy(existing, incoming, pol) ==
    IF pol = "prefer-last" THEN <<incoming, existing>> ELSE <<existing, incoming>>

\* detect_parameter_conflicts without the test that the secondary side
\* declares a default.
detect_parameter_conflicts_one_sided(primary, secondary, cmp_defaults, cmp_annotations) ==
    (IF primary.kind # secondary.kind
     THEN << <<"kind", primary.kind, secondary.kind>> >> ELSE << >>)
    \o
    (IF /\ cmp_defaults
        /\ primary.default # empty
        /\ primary.default # secondary.default
     THEN << <<"default", primary.default, secondary.default>> >> ELSE << >>)
    \o
    (IF /\ cmp_annotations
        /\ primary.annotation # empty
        /\ secondary.annotation # empty
        /\ primary.annotation # secondary.annotation
     THEN << <<"annotation", primary.annotation, secondary.annotation>> >> ELSE << >>)

detect_parameter_conflicts(primary, secondary, cmp_defaults, cmp_annotations) ==
    (IF primary.kind # secondary.kind
     THEN << <<"kind", primary.kind, secondary.kind>> >> ELSE << >>)
    \o
    (IF /\ cmp_defaults
        /\ primary.default # empty
        /\ secondary.default # empty
        /\ primary.default # secondary.default
     THEN << <<"default", primary.default, secondary.default>> >> ELSE << >>)
    \o
    (IF /\ cmp_annotations
        /\ primary.annotation # empty
        /\ secondary.annotation # empty
        /\ primary.annotation # secondary.annotation
     THEN << <<"annotation", primary.annotation, secondary.annotation>> >> ELSE << >>)

conflict_types(conflicts) == { conflicts[i][1] : i \in 1..Len(conflicts) }

has_annotation(parameter) == parameter.annotation # empty
has_default(parameter) == parameter.default # empty

\* The predicate handed to _select_parameter_candidate, applied.
predicate(resolver, parameter) ==
    IF resolver = "prefer-annotated"
    THEN has_annotation(parameter) ELSE has_default(parameter)

\* _select_parameter_candidate, with the predicate of the strategy named
\* by resolver.
select_parameter_candidate(existing, incoming, pol, resolver) ==
    LET found == (IF predicate(resolver, existing) THEN << <<"existing", existing>> >> ELSE << >>)
                 \o
                 (IF predicate(resolver, incoming) THEN << <<"incoming", incoming>> >> ELSE << >>)
        candidates == IF found = << >>
                      THEN << <<"existing", existing>>, <<"incoming", incoming>> >>
                      ELSE found
        chosen == IF pol = "prefer-last"
                  THEN candidates[Len(candidates)] ELSE candidates[1]
    IN  [parameter |-> chosen[2], source |-> chosen[1]]

\* _resolve_parameter_conflict for the built-in strategies.
resolve_parameter_conflict(existing, incoming, pol, resolver) ==
    IF resolver = "prefer-annotated"
    THEN select_parameter_candidate(existing, incoming, pol, "prefer-annotated")
    ELSE select_parameter_candidate(existing, incoming, pol, "prefer-defaulted")

\* finalise_resolved_parameter that fills in the default only.
finalise_resolved_parameter_default_only(resolved, counterpart, conflicts) ==
    IF /\ "default" \notin conflict_types(conflicts)
       /\ resolved.default = empty
       /\ counterpart.default # empty
    THEN replace(resolved, counterpart.default, resolved.annotation)
    ELSE Returned(resolved)

\* _finalise_resolved_parameter: two successive replace calls.
finalise_resolved_parameter(resolved, counterpart, conflicts) ==
    LET types == conflict_types(conflicts)
        first == IF /\ "default" \notin types
                    /\ resolved.default = empty
                    /\ counterpart.default # empty
                 THEN replace(resolved, counterpart.default, resolved.annotation)
                 ELSE Returned(resolved)
        updated == first.value
    IN  IF first.exc # "none" THEN first
        ELSE IF /\ "annotation" \notin types
                /\ updated.annotation = empty
                /\ counterpart.annotation # empty
             THEN replace(updated, updated.default, counterpart.annotation)
             ELSE Returned(updated)

\* The counterpart of the side a resolution picked (lines 519-525).
counterpart_of(source, existing, incoming) ==
    IF source = "existing" THEN incoming ELSE existing

\* merge_without_conflict with the secondary side's default overriding.
merge_without_conflict_overriding(primary, secondary) ==
    LET default == IF secondary.default # empty
                   THEN secondary.default ELSE primary.default
        annotation == IF primary.annotation = empty /\ secondary.annotation # empty
                      THEN secondary.annotation ELSE primary.annotation
    IN  replace(primary, default, annotation)

\* The no-conflict branch of _merge_parameter_metadata (lines 531-539).
merge_without_conflict(primary, secondary) ==
    LET default == IF primary.default = empty /\ secondary.default # empty
                   THEN secondary.default ELSE primary.default
        annotation == IF primary.annotation = empty /\ secondary.annotation # empty
                      THEN secondary.annotation ELSE primary.annotation
    IN  replace(primary, default, annotation)

\* conflict_parts that reports the first conflict only.
conflict_parts_first_only(conflicts) ==
    << << conflicts[1][1], conflicts[1][2], "vs", conflicts[1][3] >> >>

\* _raise_parameter_conflict: the parts of the message, one per conflict.
conflict_parts(conflicts) ==
    [ i \in 1..Len(conflicts) |->
        << conflicts[i][1], conflicts[i][2], "vs", conflicts[i][3] >> ]


\* _iter_bucketed_parameters: the buckets' values in canonical kind order.
RECURSIVE iter_from(_, _)
iter_from(bkts, i) ==
    IF i > Len(PARAMETER_KIND_ORDER) THEN << >>
    ELSE od_values(bkts[PARAMETER_KIND_ORDER[i]]) \o iter_from(bkts, i + 1)

iter_bucketed_parameters(bkts) == iter_from(bkts, 1)

\* inspect.Signature.__init__ with parameter validation: the exception it
\* raises walking the parameters from index i on, or "none".
RECURSIVE signature_validate(_, _, _, _, _)
signature_validate(params, i, top_kind, seen_default, seen_names) ==
    IF i > Len(params) THEN "none"
    ELSE LET param == params[i]
             positional == param.kind \in PositionalKinds
         IN  IF KindValue(param.kind) < KindValue(top_kind) THEN "ValueError"
             ELSE IF positional /\ param.default = empty /\ seen_default
                  THEN "ValueError"
             ELSE IF param.name \in seen_names THEN "ValueError"
             ELSE signature_validate(params, i + 1, param.kind,
                                     seen_default \/ (positional /\ param.default # empty),
                                     seen_names \cup {param.name})

signature_init(params) ==
    signature_validate(params, 1, "POSITIONAL_ONLY", FALSE, {})

\* ------------------------------------------------------------- state
VARIABLES
    pc,                  \* "start", "loop", "resolver", "returned", "raised"
    policy,              \* the policy argument
    on_conflict,         \* the on_conflict argument ("None" when unset)
    compare_defaults,    \* the compare_defaults argument
    compare_annotations, \* the compare_annotations argument
    callables,           \* number of sources not yet iterated to their end
    signature,           \* what the source being iterated has declared so far
    buckets,             \* kind -> OrderedDict name -> Parameter
    name_to_parameter,   \* OrderedDict name -> accepted Parameter
    name_to_kind,        \* OrderedDict name -> kind of the accepted Parameter
    return_annotation,   \* return annotation collected so far
    call,                \* << >> or the pending call of the custom resolver
    result,              \* << >> or the Signature returned
    exception,           \* << >> or the exception raised
    declared,            \* history: name -> what the sources declared for it
    moved,               \* history: some name changed bucket (lines 279-281)
    iterated,            \* history: << >>, or << the sources iterated so far >>
    frame,               \* the function called: "merge_signatures" or "combine"
    name_override,       \* combine's name argument ("None" when unset)
    wrapper,             \* << >> or the locals of the composite's last call
    snapshot,            \* function index -> << >> or the function's vars
    calls,               \* number of calls of the composite so far
    compared,            \* << >> or the same_signature call and what it returned
    proxy,               \* << >> or the Source Proxy handed to a fused body
    trace                \* history: the calls of the proxy and of its target

vars == << pc, policy, on_conflict, compare_defaults, compare_annotations,
           callables, signature, buckets, name_to_parameter, name_to_kind,
           return_annotation, call, result, exception, declared, moved,
           iterated, frame, name_override, wrapper, snapshot, calls, compared,
           proxy, trace >>

fused == << proxy, trace >>
composite == << frame, name_override, wrapper, snapshot, calls >>
options == << policy, on_conflict, compare_defaults, compare_annotations >>
merged_state == << buckets, name_to_parameter, name_to_kind, moved >>

\* History of the declarations of one name, kept as long as every source
\* agreed on its kind and no caller-supplied resolver replaced the parameter
\* (covered FALSE afterwards): the first and the last default and annotation
\* that a source declared.  The history is kept for the names that have an
\* entry in declared from the start.
Undeclared ==
    [covered |-> TRUE, kind |-> empty,
     first_default |-> empty, last_default |-> empty,
     first_annotation |-> empty, last_annotation |-> empty]

FirstDeclaration(parameter) ==
    [covered |-> TRUE, kind |-> parameter.kind,
     first_default |-> parameter.default, last_default |-> parameter.default,
     first_annotation |-> parameter.annotation,
     last_annotation |-> parameter.annotation]

Uncovered ==
    [covered |-> FALSE, kind |-> empty,
     first_default |-> empty, last_default |-> empty,
     first_annotation |-> empty, last_annotation |-> empty]

NextDeclaration(old, parameter, custom) ==
    IF old.kind = empty /\ old.covered THEN FirstDeclaration(parameter)
    ELSE IF ~old.covered \/ custom \/ parameter.kind # old.kind THEN Uncovered
    ELSE [old EXCEPT
            !.first_default = IF @ # empty THEN @ ELSE parameter.default,
            !.last_default = IF parameter.default # empty THEN parameter.default ELSE @,
            !.first_annotation = IF @ # empty THEN @ ELSE parameter.annotation,
            !.last_annotation = IF parameter.annotation # empty
                                THEN parameter.annotation ELSE @]

Policies == {"prefer-first", "prefer-last"}
Strategies == {"raise", "prefer-annotated", "prefer-defaulted"}

initial_parameter_buckets == [ kind \in Kinds |-> << >> ]

\* A source of which no parameter has been iterated yet.
FreshSignature ==
    [names |-> {}, top_kind |-> "POSITIONAL_ONLY", seen_default |-> FALSE]

\* The parameters a Python function signature can declare next.
NextParameters(sig, universe) ==
    { p \in universe :
        /\ p.name \notin sig.names
        /\ KindValue(p.kind) >= KindValue(sig.top_kind)
        /\ (p.kind \in VariadicKinds /\ sig.names # {}) => p.kind # sig.top_kind
        /\ (p.kind \in PositionalKinds /\ p.default = empty) => ~sig.seen_default }

Advance(sig, p) ==
    [names |-> sig.names \cup {p.name},
     top_kind |-> p.kind,
     seen_default |-> sig.seen_default
                        \/ (p.kind \in PositionalKinds /\ p.default # empty)]

Exception(type, reason, name, parts) ==
    << [type |-> type, reason |-> reason, name |-> name, parts |-> parts] >>

\* The history of the sources, where it is kept: a source is the parameters
\* it declares, in order, and its return annotation.
NewSource == [parameters |-> << >>, return_annotation |-> empty]

Iterate(history, parameter) ==
    IF history = << >> THEN history
    ELSE LET sources == history[1]
             last == Len(sources)
         IN  << [sources EXCEPT ![last].parameters = Append(@, parameter)] >>

EndSource(history, annotation, more) ==
    IF history = << >> THEN history
    ELSE LET sources == history[1]
             last == Len(sources)
             ended == [sources EXCEPT ![last].return_annotation = annotation]
         IN  << IF more THEN Append(ended, NewSource) ELSE ended >>

\* No call of a proxy has been made.
NoCalls == [invoked |-> << >>, returned |-> << >>]

InitCall ==
    /\ pc = "start"
    /\ policy \in Policies \cup {"bogus"}
    /\ on_conflict \in {"None", "callable", "bogus"} \cup Strategies
    /\ compare_defaults \in BOOLEAN
    /\ compare_annotations \in BOOLEAN
    /\ callables \in 0..MaxSources
    /\ signature = FreshSignature
    /\ buckets = initial_parameter_buckets
    /\ name_to_parameter = << >>
    /\ name_to_kind = << >>
    /\ return_annotation = empty
    /\ call = << >>
    /\ result = << >>
    /\ exception = << >>
    /\ moved = FALSE
    /\ frame = "merge_signatures"
    /\ name_override = "None"
    /\ wrapper = << >>
    /\ snapshot = [ i \in 1..MaxFunctions |-> << >> ]
    /\ calls = 0
    /\ proxy = << >>
    /\ trace = NoCalls
    /\ compared = << >>

Init == InitCall /\ declared = << <<"x", Undeclared>> >> /\ iterated = << >>

Raise(exc) ==
    /\ pc' = "raised"
    /\ exception' = exc
    /\ UNCHANGED << fused, compared, composite, options, callables, signature, merged_state,
                    return_annotation, call, result, declared, iterated >>

\* Enter validating the options before it looks at the sources.
Enter_validating_first ==
    /\ pc = "start"
    /\ IF policy \notin Policies
       THEN Raise(Exception("ValueError", "unsupported policy", "", << >>))
       ELSE IF on_conflict \notin {"None", "callable"} \cup Strategies
       THEN Raise(Exception("ValueError", "unsupported on_conflict", "", << >>))
       ELSE IF callables = 0
       THEN Raise(Exception("ValueError", "requires at least one callable", "", << >>))
       ELSE /\ pc' = "loop"
            /\ iterated' = IF iterated = << >> THEN iterated ELSE << << NewSource >> >>
            /\ UNCHANGED << fused, compared, composite, options, callables, signature, merged_state,
                            return_annotation, call, result, exception, declared >>

\* merge_signatures, lines 242-252: the argument checks.
Enter ==
    /\ pc = "start"
    /\ IF callables = 0
       THEN Raise(Exception("ValueError", "requires at least one callable", "", << >>))
       ELSE IF policy \notin Policies
       THEN Raise(Exception("ValueError", "unsupported policy", "", << >>))
       ELSE IF on_conflict \notin {"None", "callable"} \cup Strategies
       THEN Raise(Exception("ValueError", "unsupported on_conflict", "", << >>))
       ELSE /\ pc' = "loop"
            /\ iterated' = IF iterated = << >> THEN iterated ELSE << << NewSource >> >>
            /\ UNCHANGED << fused, compared, composite, options, callables, signature, merged_state,
                            return_annotation, call, result, exception, declared >>

\* Accept with the name deleted and re-added also when its kind is kept.
Accept_reinserting(name, merged) ==
    LET previous_kind == od_get(name_to_kind, name)
    IN  /\ buckets' = [buckets EXCEPT
                         ![previous_kind] = od_del(@, name),
                         ![merged.kind] =
                             od_set(IF merged.kind = previous_kind
                                    THEN od_del(@, name) ELSE @, name, merged)]
        /\ name_to_kind' = od_set(name_to_kind, name, merged.kind)
        /\ moved' = (moved \/ previous_kind # merged.kind)
        /\ name_to_parameter' = od_set(name_to_parameter, name, merged)

\* Lines 275-283: the merged parameter replaces the accepted one.
Accept(name, merged) ==
    LET previous_kind == od_get(name_to_kind, name)
    IN  /\ IF previous_kind = merged.kind
           THEN /\ buckets' = [buckets EXCEPT ![previous_kind] = od_set(@, name, merged)]
                /\ name_to_kind' = name_to_kind
                /\ moved' = moved
           ELSE /\ buckets' = [buckets EXCEPT ![previous_kind] = od_del(@, name),
                                              ![merged.kind] = od_set(@, name, merged)]
                /\ name_to_kind' = od_set(name_to_kind, name, merged.kind)
                /\ moved' = TRUE
        /\ name_to_parameter' = od_set(name_to_parameter, name, merged)

InLoop == pc = "loop" /\ callables > 0

\* The loop of line 257 moves past parameter.
Consume(parameter, custom) ==
    /\ signature' = Advance(signature, parameter)
    /\ declared' =
         IF od_has(declared, parameter.name)
         THEN od_set(declared, parameter.name,
                     NextDeclaration(od_get(declared, parameter.name), parameter, custom))
         ELSE declared
    /\ iterated' = Iterate(iterated, parameter)

\* Lines 258-263: a name never seen before.
FirstSeen(parameter) ==
    /\ InLoop
    /\ ~od_has(name_to_parameter, parameter.name)
    /\ buckets' = [buckets EXCEPT ![parameter.kind] = od_set(@, parameter.name, parameter)]
    /\ name_to_parameter' = od_set(name_to_parameter, parameter.name, parameter)
    /\ name_to_kind' = od_set(name_to_kind, parameter.name, parameter.kind)
    /\ moved' = moved
    /\ Consume(parameter, FALSE)
    /\ UNCHANGED << fused, compared, composite, pc, options, callables, return_annotation, call, result, exception >>

\* The conflicts _merge_parameter_metadata detects (lines 500-501).
conflicts_of(existing, incoming) ==
    LET sides == apply_policy(existing, incoming, policy)
    IN  detect_parameter_conflicts(sides[1], sides[2],
                                   compare_defaults, compare_annotations)

ReEncounter(parameter) ==
    /\ InLoop
    /\ od_has(name_to_parameter, parameter.name)

\* A re-encounter without conflicts that accepts the primary side as it is,
\* with nothing borrowed from the other side.
MergeNoConflict_replacing(parameter) ==
    /\ ReEncounter(parameter)
    /\ LET existing == od_get(name_to_parameter, parameter.name)
           sides == apply_policy(existing, parameter, policy)
           merged == merge_without_conflict(sides[1], sides[2])
       IN  /\ conflicts_of(existing, parameter) = << >>
           /\ IF merged.exc # "none"
              THEN Raise(Exception(merged.exc, "replace", parameter.name, << >>))
              ELSE /\ Accept(parameter.name, sides[1])
                   /\ Consume(parameter, FALSE)
                   /\ UNCHANGED << fused, compared, composite, pc, options, callables, return_annotation,
                                   call, result, exception >>

\* Lines 531-539 then 275-283: a re-encounter without conflicts.
MergeNoConflict(parameter) ==
    /\ ReEncounter(parameter)
    /\ LET existing == od_get(name_to_parameter, parameter.name)
           sides == apply_policy(existing, parameter, policy)
           merged == merge_without_conflict(sides[1], sides[2])
       IN  /\ conflicts_of(existing, parameter) = << >>
           /\ IF merged.exc # "none"
              THEN Raise(Exception(merged.exc, "replace", parameter.name, << >>))
              ELSE /\ Accept(parameter.name, merged.value)
                   /\ Consume(parameter, FALSE)
                   /\ UNCHANGED << fused, compared, composite, pc, options, callables, return_annotation,
                                   call, result, exception >>

\* Lines 503-513 and _raise_parameter_conflict: on_conflict unset or "raise".
MergeRaise(parameter) ==
    /\ ReEncounter(parameter)
    /\ on_conflict \in {"None", "raise"}
    /\ LET conflicts == conflicts_of(od_get(name_to_parameter, parameter.name), parameter)
       IN  /\ conflicts # << >>
           /\ Raise(Exception("SignatureConflictError", "conflict",
                              parameter.name, conflict_parts(conflicts)))

\* Lines 503-529 then 275-283: a built-in strategy resolves the conflict.
MergeStrategy(parameter) ==
    /\ ReEncounter(parameter)
    /\ on_conflict \in {"prefer-annotated", "prefer-defaulted"}
    /\ LET existing == od_get(name_to_parameter, parameter.name)
           conflicts == conflicts_of(existing, parameter)
           picked == resolve_parameter_conflict(existing, parameter, policy, on_conflict)
           merged == finalise_resolved_parameter(
                         picked.parameter,
                         counterpart_of(picked.source, existing, parameter),
                         conflicts)
       IN  /\ conflicts # << >>
           /\ IF merged.exc # "none"
              THEN Raise(Exception(merged.exc, "replace", parameter.name, << >>))
              ELSE /\ Accept(parameter.name, merged.value)
                   /\ Consume(parameter, FALSE)
                   /\ UNCHANGED << fused, compared, composite, pc, options, callables, return_annotation,
                                   call, result, exception >>

\* ResolverCall handing over the primary and the secondary side.
ResolverCall_sides(parameter) ==
    /\ ReEncounter(parameter)
    /\ on_conflict = "callable"
    /\ LET existing == od_get(name_to_parameter, parameter.name)
           conflicts == conflicts_of(existing, parameter)
           sides == apply_policy(existing, parameter, policy)
       IN  /\ conflicts # << >>
           /\ call' = << [name |-> parameter.name, existing |-> sides[1],
                          incoming |-> sides[2], conflicts |-> conflicts] >>
    /\ pc' = "resolver"
    /\ UNCHANGED << fused, compared, composite, options, callables, signature, merged_state,
                    return_annotation, result, exception, declared, iterated >>

\* Lines 592-593: the custom resolver is called with the conflict.
ResolverCall(parameter) ==
    /\ ReEncounter(parameter)
    /\ on_conflict = "callable"
    /\ LET existing == od_get(name_to_parameter, parameter.name)
           conflicts == conflicts_of(existing, parameter)
       IN  /\ conflicts # << >>
           /\ call' = << [name |-> parameter.name, existing |-> existing,
                          incoming |-> parameter, conflicts |-> conflicts] >>
    /\ pc' = "resolver"
    /\ UNCHANGED << fused, compared, composite, options, callables, signature, merged_state,
                    return_annotation, result, exception, declared, iterated >>

\* Lines 594-596, 514-529, 275-283: the resolver returns a Parameter.
ResolverReturn(resolved) ==
    /\ pc = "resolver"
    /\ IF resolved.name # call[1].name
       THEN /\ pc' = "raised"
            /\ exception' = Exception("SignatureConflictError",
                                      "resolver must keep parameter name",
                                      call[1].name, << >>)
            /\ UNCHANGED << signature, merged_state, declared, iterated >>
       ELSE /\ pc' = "loop"
            /\ Accept(call[1].name, resolved)
            /\ Consume(call[1].incoming, TRUE)
            /\ exception' = exception
    /\ call' = << >>
    /\ UNCHANGED << fused, compared, composite, options, callables, return_annotation, result >>

\* Lines 594-595: the resolver returns something that is not a Parameter.
ResolverReturnOther ==
    /\ pc = "resolver"
    /\ pc' = "raised"
    /\ exception' = Exception("TypeError", "on_conflict callable must return a Parameter",
                              call[1].name, << >>)
    /\ call' = << >>
    /\ UNCHANGED << fused, compared, composite, options, callables, signature, merged_state,
                    return_annotation, result, declared, iterated >>

\* NextSource keeping the first return annotation that a source declares.
NextSource_first_declared(annotation) ==
    /\ InLoop
    /\ return_annotation' = IF return_annotation # empty
                             THEN return_annotation ELSE annotation
    /\ callables' = callables - 1
    /\ signature' = FreshSignature
    /\ iterated' = EndSource(iterated, annotation, callables > 1)
    /\ UNCHANGED << fused, compared, composite, pc, options, merged_state, call, result, exception, declared >>

\* Lines 285-286 and the next turn of the loop of line 254.
NextSource(annotation) ==
    /\ InLoop
    /\ return_annotation' = IF annotation # empty THEN annotation ELSE return_annotation
    /\ callables' = callables - 1
    /\ signature' = FreshSignature
    /\ iterated' = EndSource(iterated, annotation, callables > 1)
    /\ UNCHANGED << fused, compared, composite, pc, options, merged_state, call, result, exception, declared >>

\* Lines 288-289: the merged Signature is built and returned.
Return ==
    /\ pc = "loop"
    /\ callables = 0
    /\ LET merged_parameters == iter_bucketed_parameters(buckets)
           failure == signature_init(merged_parameters)
       IN  IF failure # "none"
           THEN Raise(Exception(failure, "Signature", "", << >>))
           ELSE /\ pc' = "returned"
                /\ result' = << [parameters |-> merged_parameters,
                                 return_annotation |-> return_annotation] >>
                /\ UNCHANGED << fused, compared, composite, options, callables, signature, merged_state,
                                return_annotation, call, exception, declared, iterated >>

\* Sources that declare a bare x, by position or by keyword, and any return
\* annotation.
ReturnParameters ==
    { p \in Parameters :
        /\ p.name = "x"
        /\ p.annotation = empty
        /\ p.default = empty
        /\ p.kind \in {"POSITIONAL_OR_KEYWORD", "KEYWORD_ONLY"} }

ReturnAnnotations == {empty} \cup AnnotationValues

ReturnResults(c) == {c.existing, c.incoming}

\* Sources over one name with every kind, default and annotation: the
\* re-encounters of that name exercise the whole of _merge_parameter_metadata.
AttributeParameters == { p \in Parameters : p.name = "x" }

\* Sources over two names of every kind, x with or without a default and y
\* without: the order of the merged parameters is exercised.
OrderParameters ==
    { p \in Parameters : /\ p.annotation = empty
                         /\ p.default \in {empty, "1"}
                         /\ p.name = "y" => p.default = empty }

\* What a custom resolver returns for a call: one of the two sides, or
\* the accepted side with one of its fields replaced.
AttributeResults(c) ==
    {c.existing, c.incoming}
    \cup { q \in Parameters :
              Cardinality({ field \in DOMAIN q : q[field] # c.existing[field] }) = 1 }

\* What a custom resolver returns when only the order matters.
OrderResults(c) == OrderParameters

\* One turn of merge_signatures over sources that declare x with any
\* attributes; the sources declare no return annotation.
Next ==
    \/ Enter
    \/ \E parameter \in NextParameters(signature, AttributeParameters) : FirstSeen(parameter)
    \/ \E parameter \in NextParameters(signature, AttributeParameters) : MergeNoConflict(parameter)
    \/ \E parameter \in NextParameters(signature, AttributeParameters) : MergeRaise(parameter)
    \/ \E parameter \in NextParameters(signature, AttributeParameters) : MergeStrategy(parameter)
    \/ \E parameter \in NextParameters(signature, AttributeParameters) : ResolverCall(parameter)
    \/ \E resolved \in (IF call = << >> THEN {} ELSE AttributeResults(call[1])) :
            ResolverReturn(resolved)
    \/ ResolverReturnOther
    \/ \E annotation \in {empty} : NextSource(annotation)
    \/ Return

Spec == Init /\ [][Next]_vars

\* One turn of merge_signatures over sources that declare x and y.
NextOrder ==
    \/ Enter
    \/ \E parameter \in NextParameters(signature, OrderParameters) : FirstSeen(parameter)
    \/ \E parameter \in NextParameters(signature, OrderParameters) : MergeNoConflict(parameter)
    \/ \E parameter \in NextParameters(signature, OrderParameters) : MergeRaise(parameter)
    \/ \E parameter \in NextParameters(signature, OrderParameters) : MergeStrategy(parameter)
    \/ \E parameter \in NextParameters(signature, OrderParameters) : ResolverCall(parameter)
    \/ \E resolved \in (IF call = << >> THEN {} ELSE OrderResults(call[1])) :
            ResolverReturn(resolved)
    \/ ResolverReturnOther
    \/ \E annotation \in {empty} : NextSource(annotation)
    \/ Return

\* No source of OrderParameters is annotated: compare_annotations has no
\* effect there and keeps its default.
InitOrder ==
    InitCall /\ compare_annotations = TRUE /\ declared = << >> /\ iterated = << >>

SpecOrder == InitOrder /\ [][NextOrder]_vars

\* One turn of merge_signatures over sources that declare a return
\* annotation or none; the history of the sources is kept.
NextReturn ==
    \/ Enter
    \/ \E parameter \in NextParameters(signature, ReturnParameters) : FirstSeen(parameter)
    \/ \E parameter \in NextParameters(signature, ReturnParameters) : MergeNoConflict(parameter)
    \/ \E parameter \in NextParameters(signature, ReturnParameters) : MergeRaise(parameter)
    \/ \E parameter \in NextParameters(signature, ReturnParameters) : MergeStrategy(parameter)
    \/ \E parameter \in NextParameters(signature, ReturnParameters) : ResolverCall(parameter)
    \/ \E resolved \in (IF call = << >> THEN {} ELSE ReturnResults(call[1])) :
            ResolverReturn(resolved)
    \/ ResolverReturnOther
    \/ \E annotation \in ReturnAnnotations : NextSource(annotation)
    \/ Return

InitReturn ==
    InitCall /\ compare_annotations = TRUE /\ declared = << >> /\ iterated = << << >> >>

SpecReturn == InitReturn /\ [][NextReturn]_vars

\* Sources that declare x by position or by keyword, with or without a
\* default and an annotation.
DefaultParameters ==
    { p \in Parameters : /\ p.name = "x"
                         /\ p.kind \in {"POSITIONAL_OR_KEYWORD", "KEYWORD_ONLY"} }

\* One turn of merge_signatures with on_conflict unset or "raise"; the
\* history of the sources is kept.
NextDefaults ==
    \/ Enter
    \/ \E parameter \in NextParameters(signature, DefaultParameters) : FirstSeen(parameter)
    \/ \E parameter \in NextParameters(signature, DefaultParameters) : MergeNoConflict(parameter)
    \/ \E parameter \in NextParameters(signature, DefaultParameters) : MergeRaise(parameter)
    \/ NextSource(empty)
    \/ Return

InitDefaults ==
    /\ InitCall
    /\ on_conflict \in {"None", "raise"}
    /\ declared = << >>
    /\ iterated = << << >> >>

SpecDefaults == InitDefaults /\ [][NextDefaults]_vars

\* ---------------------------------------------------------------------
\* inspect.Signature.bind and inspect.BoundArguments (CPython 3.11), which
\* combine's wrapper calls.  A signature is the sequence of its parameters;
\* args is a tuple, kwargs and arguments are OrderedDicts; the value bound
\* to a variadic-positional name is a tuple, to a variadic-keyword name an
\* OrderedDict.

Bound(arguments) == [exc |-> "none", reason |-> "", name |-> "", arguments |-> arguments]
Unbound(reason, name) ==
    [exc |-> "TypeError", reason |-> reason, name |-> name, arguments |-> << >>]

From(seq, first) == [ k \in 1..(Len(seq) - first + 1) |-> seq[first + k - 1] ]

\* The keyword phase of Signature._bind: the parameters from index i on take
\* their values from kwargs; what is left of kwargs goes to the
\* variadic-keyword parameter kwargs_param (<< >> when none was met).
RECURSIVE bind_keywords(_, _, _, _, _, _)
bind_keywords(parameters, i, kwargs, partial, arguments, kwargs_param) ==
    IF i > Len(parameters)
    THEN IF kwargs = << >> THEN Bound(arguments)
         ELSE IF kwargs_param # << >>
         THEN Bound(od_set(arguments, kwargs_param[1].name, kwargs))
         ELSE Unbound("got an unexpected keyword argument", kwargs[1][1])
    ELSE LET param == parameters[i]
         IN  IF param.kind = "VAR_KEYWORD"
             THEN bind_keywords(parameters, i + 1, kwargs, partial, arguments, << param >>)
             ELSE IF param.kind = "VAR_POSITIONAL"
             THEN bind_keywords(parameters, i + 1, kwargs, partial, arguments, kwargs_param)
             ELSE IF ~od_has(kwargs, param.name)
             THEN IF ~partial /\ param.default = empty
                  THEN Unbound("missing a required argument", param.name)
                  ELSE bind_keywords(parameters, i + 1, kwargs, partial,
                                     arguments, kwargs_param)
             ELSE IF param.kind = "POSITIONAL_ONLY"
             THEN Unbound("parameter is positional only, but was passed as a keyword",
                          param.name)
             ELSE bind_keywords(parameters, i + 1, od_del(kwargs, param.name), partial,
                                od_set(arguments, param.name, od_get(kwargs, param.name)),
                                kwargs_param)

\* The positional phase of Signature._bind: args from index j on meet the
\* parameters from index i on.
RECURSIVE bind_positional(_, _, _, _, _, _, _)
bind_positional(parameters, i, args, j, kwargs, partial, arguments) ==
    IF j > Len(args)
    THEN IF i > Len(parameters)
         THEN bind_keywords(parameters, i, kwargs, partial, arguments, << >>)
         ELSE LET param == parameters[i]
              IN  IF param.kind = "VAR_POSITIONAL"
                  THEN bind_keywords(parameters, i + 1, kwargs, partial, arguments, << >>)
                  ELSE IF od_has(kwargs, param.name)
                  THEN IF param.kind = "POSITIONAL_ONLY"
                       THEN Unbound("parameter is positional only, but was passed as a keyword",
                                    param.name)
                       ELSE bind_keywords(parameters, i, kwargs, partial, arguments, << >>)
                  ELSE IF param.kind = "VAR_KEYWORD" \/ param.default # empty
                  THEN bind_keywords(parameters, i, kwargs, partial, arguments, << >>)
                  ELSE IF partial
                  THEN bind_keywords(parameters, i, kwargs, partial, arguments, << >>)
                  ELSE Unbound("missing a required argument", param.name)
    ELSE IF i > Len(parameters)
         THEN Unbound("too many positional arguments", "")
         ELSE LET param == parameters[i]
              IN  IF param.kind \in {"VAR_KEYWORD", "KEYWORD_ONLY"}
                  THEN Unbound("too many positional arguments", "")
                  ELSE IF param.kind = "VAR_POSITIONAL"
                  THEN bind_keywords(parameters, i + 1, kwargs, partial,
                                     od_set(arguments, param.name, From(args, j)), << >>)
                  ELSE IF od_has(kwargs, param.name) /\ param.kind # "POSITIONAL_ONLY"
                  THEN Unbound("multiple values for argument", param.name)
                  ELSE bind_positional(parameters, i + 1, args, j + 1, kwargs, partial,
                                       od_set(arguments, param.name, args[j]))

\* bind that tolerates missing arguments.
bind_tolerant(parameters, args, kwargs) ==
    bind_positional(parameters, 1, args, 1, kwargs, TRUE, << >>)

\* Signature.bind(*args, **kwargs).
bind(parameters, args, kwargs) ==
    bind_positional(parameters, 1, args, 1, kwargs, FALSE, << >>)

\* Signature.bind_partial(*args, **kwargs).
bind_partial(parameters, args, kwargs) ==
    bind_positional(parameters, 1, args, 1, kwargs, TRUE, << >>)

\* BoundArguments.apply_defaults.
RECURSIVE apply_defaults(_, _, _)
apply_defaults(parameters, i, arguments) ==
    IF i > Len(parameters) THEN << >>
    ELSE LET param == parameters[i]
             rest == apply_defaults(parameters, i + 1, arguments)
         IN  IF od_has(arguments, param.name)
             THEN << <<param.name, od_get(arguments, param.name)>> >> \o rest
             ELSE IF param.default # empty
             THEN << <<param.name, param.default>> >> \o rest
             ELSE IF param.kind \in VariadicKinds
             THEN << <<param.name, << >> >> >> \o rest
             ELSE rest

\* BoundArguments.args.
RECURSIVE bound_args(_, _, _)
bound_args(parameters, i, arguments) ==
    IF i > Len(parameters) THEN << >>
    ELSE LET param == parameters[i]
         IN  IF param.kind \in {"VAR_KEYWORD", "KEYWORD_ONLY"} THEN << >>
             ELSE IF ~od_has(arguments, param.name) THEN << >>
             ELSE IF param.kind = "VAR_POSITIONAL"
             THEN od_get(arguments, param.name) \o bound_args(parameters, i + 1, arguments)
             ELSE << od_get(arguments, param.name) >>
                  \o bound_args(parameters, i + 1, arguments)

\* dict.update: the entries of other laid over base.
RECURSIVE od_update(_, _)
od_update(base, other) ==
    IF other = << >> THEN base
    ELSE od_update(od_set(base, other[1][1], other[1][2]), From(other, 2))

\* BoundArguments.kwargs.
RECURSIVE bound_kwargs(_, _, _, _, _)
bound_kwargs(parameters, i, arguments, kwargs_started, kwargs) ==
    IF i > Len(parameters) THEN kwargs
    ELSE LET param == parameters[i]
             started == kwargs_started
                          \/ param.kind \in {"VAR_KEYWORD", "KEYWORD_ONLY"}
                          \/ ~od_has(arguments, param.name)
         IN  IF ~started \/ ~od_has(arguments, param.name)
             THEN bound_kwargs(parameters, i + 1, arguments, started, kwargs)
             ELSE IF param.kind = "VAR_KEYWORD"
             THEN bound_kwargs(parameters, i + 1, arguments, started,
                               od_update(kwargs, od_get(arguments, param.name)))
             ELSE bound_kwargs(parameters, i + 1, arguments, started,
                               od_set(kwargs, param.name, od_get(arguments, param.name)))


\* ------------------------------------------------------------- combine
\* combine._has_var_keyword
has_var_keyword(parameters) ==
    \E i \in 1..Len(parameters) : parameters[i].kind = "VAR_KEYWORD"

\* accepted names that leave out the positional-or-keyword parameters.
accepted_names_keyword_only(parameters) ==
    { parameters[i].name : i \in { k \in 1..Len(parameters) :
          parameters[k].kind = "KEYWORD_ONLY" } }

\* The names a signature accepts by keyword (lines 363-367).
accepted_names(parameters) ==
    { parameters[i].name : i \in { k \in 1..Len(parameters) :
          parameters[k].kind \in {"POSITIONAL_OR_KEYWORD", "KEYWORD_ONLY"} } }

\* drop_unknown_kwargs that offers a function every keyword of the call.
drop_unknown_kwargs_keeping(parameters, incoming) ==
    IF incoming = << >> THEN << << >>, << >> >>
    ELSE IF has_var_keyword(parameters) THEN << incoming, incoming >>
    ELSE << SelectSeq(incoming, LAMBDA kv : kv[1] \in accepted_names(parameters)),
            incoming >>

\* combine._drop_unknown_kwargs: << known, leftover >>.
drop_unknown_kwargs(parameters, incoming) ==
    IF incoming = << >> THEN << << >>, << >> >>
    ELSE IF has_var_keyword(parameters) THEN << incoming, << >> >>
    ELSE << SelectSeq(incoming, LAMBDA kv : kv[1] \in accepted_names(parameters)),
            SelectSeq(incoming, LAMBDA kv : kv[1] \notin accepted_names(parameters)) >>

\* The loop of combine._bind_arguments (lines 376-391): << positional,
\* keywords >> for the parameters from index i on.
RECURSIVE slice_arguments(_, _, _, _, _)
slice_arguments(parameters, i, values, positional, keywords) ==
    IF i > Len(parameters) THEN << positional, keywords >>
    ELSE LET parameter == parameters[i]
             given == od_has(values, parameter.name)
         IN  IF parameter.kind = "POSITIONAL_ONLY"
             THEN slice_arguments(parameters, i + 1, values,
                      IF given THEN Append(positional, od_get(values, parameter.name))
                      ELSE positional,
                      keywords)
             ELSE IF parameter.kind = "POSITIONAL_OR_KEYWORD"
             THEN slice_arguments(parameters, i + 1, values,
                      IF given /\ ~od_has(keywords, parameter.name)
                      THEN Append(positional, od_get(values, parameter.name))
                      ELSE positional,
                      keywords)
             ELSE IF parameter.kind = "VAR_POSITIONAL"
             THEN slice_arguments(parameters, i + 1, values,
                      IF given THEN positional \o od_get(values, parameter.name)
                      ELSE positional,
                      keywords)
             ELSE IF parameter.kind = "KEYWORD_ONLY"
             THEN slice_arguments(parameters, i + 1, values, positional,
                      IF given /\ ~od_has(keywords, parameter.name)
                      THEN od_set(keywords, parameter.name, od_get(values, parameter.name))
                      ELSE keywords)
             ELSE slice_arguments(parameters, i + 1, values, positional,
                      od_update(IF given THEN od_get(values, parameter.name) ELSE << >>,
                                keywords))

\* bind_arguments that passes by position only what was not passed by keyword
\* to any parameter before it.
bind_arguments_positional_first(parameters, values, extra_kwargs) ==
    LET sliced == slice_arguments(parameters, 1, od_update(values, extra_kwargs),
                                  << >>, << >>)
    IN  bind_partial(parameters, sliced[1], sliced[2])

\* combine._bind_arguments
bind_arguments(parameters, values, extra_kwargs) ==
    LET sliced == slice_arguments(parameters, 1, values, << >>, extra_kwargs)
    IN  bind_partial(parameters, sliced[1], sliced[2])

\* The functions handed to combine and their signatures (line 350).
functions == 1..Len(iterated[1])
signatures(function) == iterated[1][function].parameters
merged_signature == result[1].parameters

\* What a function returns: every function returns a value of its own.
ReturnValue(function) == function

\* primary.__name__ and the name the composite reports (line 413).
PrimaryName == "primary"
function_name == IF name_override # "None" THEN name_override ELSE PrimaryName

\* combine, lines 345-348: the check for an empty call, then merge_signatures
\* is called with its default options.
CombineEnter ==
    /\ pc = "combine"
    /\ IF callables = 0
       THEN Raise(Exception("ValueError", "combine requires at least one callable",
                            "", << >>))
       ELSE /\ pc' = "start"
            /\ UNCHANGED << fused, compared, composite, options, callables, signature, merged_state,
                            return_annotation, call, result, exception, declared,
                            iterated >>

\* combine, lines 349-350 and 420-428: the composite is built and returned.
CombineReturn ==
    /\ pc = "returned"
    /\ frame = "combine"
    /\ pc' = "wrapper"
    /\ UNCHANGED << fused, compared, composite, options, callables, signature, merged_state,
                    return_annotation, call, result, exception, declared, iterated >>

CallRaise(locals, exc) ==
    /\ pc' = "call_raised"
    /\ wrapper' = << locals >>
    /\ exception' = exc

\* wrapper, lines 397-401: the call is bound against the merged signature.
WrapperCall(args, kwargs) ==
    /\ pc \in {"wrapper", "call_returned", "call_raised"}
    /\ calls < MaxCalls
    /\ calls' = calls + 1
    /\ LET bound_all == bind(merged_signature, args, kwargs)
           locals == [args |-> args, kwargs |-> kwargs, arguments |-> << >>,
                      remaining_kwargs |-> << >>, invoked |-> << >>, result |-> << >>]
       IN  IF bound_all.exc # "none"
           THEN CallRaise(locals, Exception(bound_all.exc, bound_all.reason,
                                            bound_all.name, << >>))
           ELSE /\ pc' = "bound"
                /\ wrapper' = << [locals EXCEPT
                                    !.arguments = apply_defaults(merged_signature, 1,
                                                                 bound_all.arguments),
                                    !.remaining_kwargs = kwargs] >>
                /\ exception' = << >>
    /\ UNCHANGED << fused, compared, frame, name_override, snapshot, options, callables, signature,
                    merged_state, return_annotation, call, result, declared, iterated >>

\* wrapper, lines 403-409: the next function is sliced its arguments and
\* invoked; the call binds them to the function's own parameters.
Invoke ==
    /\ pc = "bound"
    /\ Len(wrapper[1].invoked) < Len(iterated[1])
    /\ LET locals == wrapper[1]
           function == Len(locals.invoked) + 1
           split == drop_unknown_kwargs(signatures(function), locals.remaining_kwargs)
           bound == bind_arguments(signatures(function), locals.arguments, split[1])
           args == bound_args(signatures(function), 1, bound.arguments)
           kwargs == bound_kwargs(signatures(function), 1, bound.arguments, FALSE, << >>)
           received == bind(signatures(function), args, kwargs)
           claimed == [locals EXCEPT !.remaining_kwargs = split[2]]
       IN  IF bound.exc # "none"
           THEN CallRaise(claimed, Exception(bound.exc, bound.reason, bound.name, << >>))
           ELSE IF received.exc # "none"
           THEN CallRaise(claimed, Exception(received.exc, received.reason,
                                             received.name, << >>))
           ELSE /\ wrapper' = << [claimed EXCEPT
                     !.invoked = Append(@, [function |-> function,
                                            known |-> split[1],
                                            args |-> args, kwargs |-> kwargs,
                                            arguments |-> apply_defaults(
                                                signatures(function), 1,
                                                received.arguments)]),
                     !.result = IF function = 1 THEN << ReturnValue(function) >> ELSE @] >>
                /\ UNCHANGED << pc, exception >>
    /\ UNCHANGED << fused, compared, frame, name_override, snapshot, calls, options, callables, signature,
                    merged_state, return_annotation, call, result, declared, iterated >>

\* wrapper, lines 411-418: the leftover keywords are checked and the
\* primary's result is returned.
WrapperReturn ==
    /\ pc = "bound"
    /\ Len(wrapper[1].invoked) = Len(iterated[1])
    /\ IF wrapper[1].remaining_kwargs # << >>
       THEN CallRaise(wrapper[1],
                      Exception("TypeError", "got an unexpected keyword argument",
                                wrapper[1].remaining_kwargs[1][1], << function_name >>))
       ELSE /\ pc' = "call_returned"
            /\ UNCHANGED << wrapper, exception >>
    /\ UNCHANGED << fused, compared, frame, name_override, snapshot, calls, options, callables, signature,
                    merged_state, return_annotation, call, result, declared, iterated >>

\* The parameters the functions handed to combine declare.
CombineParameters ==
    { p \in Parameters :
        /\ p.annotation = empty
        /\ \/ p.name = "x" /\ p.kind = "POSITIONAL_OR_KEYWORD" /\ p.default \in {empty, "1"}
           \/ p.name = "x" /\ p.kind = "KEYWORD_ONLY" /\ p.default = empty
           \/ p.name = "y" /\ p.kind \in {"POSITIONAL_ONLY", "POSITIONAL_OR_KEYWORD"}
                           /\ p.default = empty
           \/ p.name = "y" /\ p.kind \in VariadicKinds }

\* The calls of the composite: up to two positional values, up to two of
\* the keywords x, y and z.
CallArgs == { << >>, << "a" >>, << "a", "b" >> }
KeywordValues == [x |-> "kx", y |-> "ky", z |-> "kz"]
CallKeywords == DOMAIN KeywordValues
CallKwargs ==
    { << >> }
    \cup { << <<k, KeywordValues[k]>> >> : k \in CallKeywords }
    \cup { << <<kk[1], KeywordValues[kk[1]]>>, <<kk[2], KeywordValues[kk[2]]>> >> :
             kk \in { pair \in CallKeywords \X CallKeywords : pair[1] # pair[2] } }

\* combine and the calls of the composite it returns.
NextCombine ==
    \/ CombineEnter
    \/ Enter
    \/ \E parameter \in NextParameters(signature, CombineParameters) : FirstSeen(parameter)
    \/ \E parameter \in NextParameters(signature, CombineParameters) : MergeNoConflict(parameter)
    \/ \E parameter \in NextParameters(signature, CombineParameters) : MergeRaise(parameter)
    \/ NextSource(empty)
    \/ Return
    \/ CombineReturn
    \/ \E args \in CallArgs, kwargs \in CallKwargs : WrapperCall(args, kwargs)
    \/ Invoke
    \/ WrapperReturn

\* combine is called, or merge_signatures with any policy and with
\* on_conflict unset, "raise" or unsupported.
InitCombine ==
    /\ frame \in {"combine", "merge_signatures"}
    /\ pc = IF frame = "combine" THEN "combine" ELSE "start"
    /\ policy \in IF frame = "combine" THEN {"prefer-first"} ELSE Policies \cup {"bogus"}
    /\ on_conflict \in IF frame = "combine" THEN {"None"} ELSE {"None", "raise", "bogus"}
    /\ name_override \in IF frame = "combine" THEN {"None", "composite"} ELSE {"None"}
    /\ compare_defaults = TRUE
    /\ compare_annotations = TRUE
    /\ callables \in 0..MaxFunctions
    /\ signature = FreshSignature
    /\ buckets = initial_parameter_buckets
    /\ name_to_parameter = << >>
    /\ name_to_kind = << >>
    /\ return_annotation = empty
    /\ call = << >>
    /\ result = << >>
    /\ exception = << >>
    /\ moved = FALSE
    /\ declared = << >>
    /\ iterated = << << >> >>
    /\ wrapper = << >>
    /\ snapshot = [ i \in 1..MaxFunctions |-> << >> ]
    /\ calls = 0
    /\ proxy = << >>
    /\ trace = NoCalls
    /\ compared = << >>

SpecCombine == InitCombine /\ [][NextCombine]_vars


\* ------------------------------------------------------ same_signature
\* A Signature: its parameters and its return annotation.
\* _strip_parameter_annotations
strip_parameter_annotations(sig) ==
    [sig EXCEPT !.parameters =
        [ i \in 1..Len(sig.parameters) |-> [sig.parameters[i] EXCEPT !.annotation = empty] ]]

\* Signature._hash_basis: the parameters that are not keyword-only, in
\* order, the keyword-only parameters by name, the return annotation.
hash_basis(sig) ==
    [params |-> SelectSeq(sig.parameters, LAMBDA p : p.kind # "KEYWORD_ONLY"),
     kwo_params |-> { sig.parameters[i] : i \in { k \in 1..Len(sig.parameters) :
                          sig.parameters[k].kind = "KEYWORD_ONLY" } },
     return_annotation |-> sig.return_annotation]

\* Signature.__eq__
signature_eq(left, right) == hash_basis(left) = hash_basis(right)

\* compatible_signatures without the test for the presence of defaults.
compatible_signatures_any_default(left, right) ==
    /\ Len(left.parameters) = Len(right.parameters)
    /\ \A i \in 1..Len(left.parameters) :
          /\ left.parameters[i].kind = right.parameters[i].kind
          /\ left.parameters[i].name = right.parameters[i].name
          /\ left.parameters[i].annotation = right.parameters[i].annotation
    /\ left.return_annotation = right.return_annotation

\* _compatible_signatures
compatible_signatures(left, right) ==
    /\ Len(left.parameters) = Len(right.parameters)
    /\ \A i \in 1..Len(left.parameters) :
          /\ left.parameters[i].kind = right.parameters[i].kind
          /\ left.parameters[i].name = right.parameters[i].name
          /\ (left.parameters[i].default # empty) = (right.parameters[i].default # empty)
          /\ left.parameters[i].annotation = right.parameters[i].annotation
    /\ left.return_annotation = right.return_annotation

\* same_signature, lines 128-142.
same_signature(first, second, strict, ignore_return, ignore_annotations) ==
    LET stripped_a == IF ignore_annotations THEN strip_parameter_annotations(first)
                      ELSE first
        stripped_b == IF ignore_annotations THEN strip_parameter_annotations(second)
                      ELSE second
        signature_a == IF ignore_return \/ ignore_annotations
                       THEN [stripped_a EXCEPT !.return_annotation = empty]
                       ELSE stripped_a
        signature_b == IF ignore_return \/ ignore_annotations
                       THEN [stripped_b EXCEPT !.return_annotation = empty]
                       ELSE stripped_b
    IN  IF strict THEN signature_eq(signature_a, signature_b)
        ELSE compatible_signatures(signature_a, signature_b)

\* The parameters of the signatures compared: x with any default and with
\* or without annotation, y with or without default.
SameParameters ==
    { p \in Parameters :
        /\ p.kind \in {"POSITIONAL_OR_KEYWORD", "KEYWORD_ONLY"}
        /\ p.annotation \in {empty, "int"}
        /\ p.name = "y" => (p.annotation = empty /\ p.default \in {empty, "1"}) }

\* The signatures compared: up to two parameters that Signature accepts.
SameSignatures ==
    { sig \in [ parameters : { << >> } \cup { << p >> : p \in SameParameters }
                               \cup { << p, q >> : p \in SameParameters, q \in SameParameters },
                return_annotation : {empty, "int"} ] :
        signature_init(sig.parameters) = "none" }

\* same_signature is called and returns.
SameSignature ==
    /\ pc = "same_signature"
    /\ pc' = "compared"
    /\ compared' = << [compared[1] EXCEPT !.same =
                         << same_signature(compared[1].first, compared[1].second,
                                           compared[1].strict, compared[1].ignore_return,
                                           compared[1].ignore_annotations) >>] >>
    /\ UNCHANGED << fused, composite, options, callables, signature, merged_state,
                    return_annotation, call, result, exception, declared, iterated >>

NextSame == SameSignature

InitSame ==
    /\ pc = "same_signature"
    /\ compared \in { << c >> : c \in [ first : SameSignatures, second : SameSignatures,
                                        strict : BOOLEAN, ignore_return : BOOLEAN,
                                        ignore_annotations : BOOLEAN, same : { << >> } ] }
    /\ policy = "prefer-first"
    /\ on_conflict = "None"
    /\ compare_defaults = TRUE
    /\ compare_annotations = TRUE
    /\ callables = 0
    /\ signature = FreshSignature
    /\ buckets = initial_parameter_buckets
    /\ name_to_parameter = << >>
    /\ name_to_kind = << >>
    /\ return_annotation = empty
    /\ call = << >>
    /\ result = << >>
    /\ exception = << >>
    /\ moved = FALSE
    /\ declared = << >>
    /\ iterated = << >>
    /\ frame = "same_signature"
    /\ name_override = "None"
    /\ wrapper = << >>
    /\ snapshot = [ i \in 1..MaxFunctions |-> << >> ]
    /\ calls = 0
    /\ proxy = << >>
    /\ trace = NoCalls

SpecSame == InitSame /\ [][NextSame]_vars


\* ---------------------------------------------------------------------
\* The Source Proxy of fuse: a deferred handle on one target with its
\* pre-sliced share of a call (args, kw) and a one-shot cache of the result
\* of the call without override arguments.  The target is called as
\* target(*args, **kwargs); its vars attribute is snapshot[1].

MaxProxyCalls == 3

\* The target of the proxy: def target(x, *, y, z=1).
TargetSignature ==
    << [name |-> "x", kind |-> "POSITIONAL_OR_KEYWORD", default |-> empty,
        annotation |-> empty],
       [name |-> "y", kind |-> "KEYWORD_ONLY", default |-> empty,
        annotation |-> empty],
       [name |-> "z", kind |-> "KEYWORD_ONLY", default |-> "1",
        annotation |-> empty] >>

\* What the target returns: every invocation returns a value of its own,
\* the number of the invocation.
TargetReturn(invocations) == Len(invocations) + 1

\* The keywords of a call of the proxy: the overrides laid over the
\* pre-sliced keywords.
proxy_kwargs(prx, overrides) == od_update(prx.kw, overrides)

\* a proxy that never answers from its cache.
cached_never(prx, overrides) == FALSE

\* The call is answered from the cache: no override and a result cached.
cached(prx, overrides) == overrides = << >> /\ prx.cache # << >>

\* a cache that keeps the result of every call.
cache_after_every_call(prx, overrides, value) == << value >>

\* The cache after a call: the first call without overrides fills it.
cache_after(prx, overrides, value) ==
    IF overrides = << >> /\ prx.cache = << >> THEN << value >> ELSE prx.cache

\* a snapshot that keeps the pre-sliced keywords whatever the call passed.
ProxyCallVars_presliced(prx, kwargs, value) ==
    [args |-> prx.args,
     kwargs |-> prx.kw,
     arguments |-> apply_defaults(TargetSignature, 1,
                                  bind(TargetSignature, prx.args, prx.kw).arguments),
     result |-> value]

\* The Call Snapshot of one call of the proxy.
ProxyCallVars(prx, kwargs, value) ==
    [args |-> prx.args,
     kwargs |-> kwargs,
     arguments |-> apply_defaults(TargetSignature, 1,
                                  bind(TargetSignature, prx.args, kwargs).arguments),
     result |-> value]

\* _FusedSourceProxy(target, *args, **kw): fuse hands the body a proxy with
\* the target's share of the call.
FusedSourceProxyInit(args, kw) ==
    /\ pc = "fuse"
    /\ pc' = "proxy"
    /\ proxy' = << [args |-> args, kw |-> kw, cache |-> << >>] >>
    /\ UNCHANGED << trace, compared, composite, options, callables, signature,
                    merged_state, return_annotation, call, result, exception,
                    declared, iterated >>

\* proxy(**overrides): the body calls the proxy.
FusedSourceProxyCall(overrides) ==
    /\ pc = "proxy"
    /\ calls < MaxProxyCalls
    /\ calls' = calls + 1
    /\ LET prx == proxy[1]
           kwargs == proxy_kwargs(prx, overrides)
           hit == cached(prx, overrides)
           value == IF hit THEN prx.cache[1] ELSE TargetReturn(trace.invoked)
       IN  /\ proxy' = << [prx EXCEPT !.cache = cache_after(prx, overrides, value)] >>
           /\ snapshot' = [snapshot EXCEPT ![1] = << ProxyCallVars(prx, kwargs, value) >>]
           /\ trace' =
                [invoked |-> IF hit THEN trace.invoked
                             ELSE Append(trace.invoked,
                                         [call |-> calls + 1, args |-> prx.args,
                                          kwargs |-> kwargs, result |-> value]),
                 returned |-> Append(trace.returned,
                                     [overrides |-> overrides, value |-> value])]
    /\ UNCHANGED << pc, compared, frame, name_override, wrapper, options, callables,
                    signature, merged_state, return_annotation, call, result,
                    exception, declared, iterated >>

\* The shares of a call fuse slices for the target, and the overrides the
\* body passes.
ProxyArgs == { << "a" >>, << "b" >> }
ProxyKw == { << <<"y", "ky">> >>, << <<"y", "ky">>, <<"z", "kz">> >> }
ProxyOverrides ==
    { << >>, << <<"y", "oy">> >>, << <<"z", "oz">> >>,
      << <<"z", "oz">>, <<"y", "oy">> >> }

\* A fused body is handed one proxy and calls it.
NextProxy ==
    \/ \E args \in ProxyArgs, kw \in ProxyKw : FusedSourceProxyInit(args, kw)
    \/ \E overrides \in ProxyOverrides : FusedSourceProxyCall(overrides)

InitProxy ==
    /\ pc = "fuse"
    /\ frame = "fuse"
    /\ policy = "prefer-first"
    /\ on_conflict = "None"
    /\ compare_defaults = TRUE
    /\ compare_annotations = TRUE
    /\ callables = 0
    /\ signature = FreshSignature
    /\ buckets = initial_parameter_buckets
    /\ name_to_parameter = << >>
    /\ name_to_kind = << >>
    /\ return_annotation = empty
    /\ call = << >>
    /\ result = << >>
    /\ exception = << >>
    /\ moved = FALSE
    /\ declared = << >>
    /\ iterated = << >>
    /\ name_override = "None"
    /\ wrapper = << >>
    /\ snapshot = [ i \in 1..MaxFunctions |-> << >> ]
    /\ calls = 0
    /\ compared = << >>
    /\ proxy = << >>
    /\ trace = NoCalls

SpecProxy == InitProxy /\ [][NextProxy]_vars

\* ------------------------------------------------------------ claims
\* The parameters of the Signature returned.
ReturnedParameters == result[1].parameters

\* The accepted parameter of a name.
accepted(name) == od_get(name_to_parameter, name)

KindOrdered(params) ==
    \A i, j \in 1..Len(params) :
        i < j => KindValue(params[i].kind) <= KindValue(params[j].kind)

\* name_to_parameter keeps its keys in the order the names were first seen.
FirstSeenIndex(name) ==
    CHOOSE i \in 1..Len(name_to_parameter) : name_to_parameter[i][1] = name

FirstSeenOrdered(params) ==
    \A i, j \in 1..Len(params) :
        (i < j /\ params[i].kind = params[j].kind)
            => FirstSeenIndex(params[i].name) < FirstSeenIndex(params[j].name)

CountOfKind(params, kind) ==
    Cardinality({ i \in 1..Len(params) : params[i].kind = kind })

\* C2: a returned signature holds at most one variadic-positional and at
\* most one variadic-keyword parameter.
C2_AtMostOneVariadic ==
    pc = "returned" =>
        /\ CountOfKind(ReturnedParameters, "VAR_POSITIONAL") <= 1
        /\ CountOfKind(ReturnedParameters, "VAR_KEYWORD") <= 1

\* The parameters a step may iterate in either specification.
Iterated == AttributeParameters \cup OrderParameters

\* What every step that re-encounters parameter p shows of p afterwards.
Iterates(p) ==
    /\ ReEncounter(p)
    /\ pc' = "loop" => /\ p.name \notin signature.names
                       /\ signature'.names = signature.names \cup {p.name}
                       /\ signature'.top_kind = p.kind
    /\ pc' = "resolver" => call'[1].incoming = p
    /\ pc' = "raised" => exception'[1].name = p.name

ConflictTypes == {"kind", "default", "annotation"}

Attribute(parameter, type) ==
    IF type = "kind" THEN parameter.kind
    ELSE IF type = "default" THEN parameter.default
    ELSE parameter.annotation

\* The conflicts the two sides of a re-encounter are documented to have.
ExpectedConflicts(existing, incoming) ==
    { type \in ConflictTypes :
        \/ /\ type = "kind"
           /\ existing.kind # incoming.kind
        \/ /\ type = "default"
           /\ compare_defaults
           /\ existing.default # empty /\ incoming.default # empty
           /\ existing.default # incoming.default
        \/ /\ type = "annotation"
           /\ compare_annotations
           /\ existing.annotation # empty /\ incoming.annotation # empty
           /\ existing.annotation # incoming.annotation }

PartTypes(parts) == { parts[i][1] : i \in 1..Len(parts) }

\* One step checked for C3.
C3_Step ==
    pc = "loop" =>
        \A p \in Iterated :
          Iterates(p) =>
            LET expected == ExpectedConflicts(accepted(p.name), p)
            IN  /\ MergeNoConflict(p) => expected = {}
                /\ MergeRaise(p) => PartTypes(exception'[1].parts) = expected
                /\ MergeStrategy(p) => expected # {}
                /\ ResolverCall(p) =>
                       /\ conflict_types(call'[1].conflicts) = expected
                       /\ Len(call'[1].conflicts) = Cardinality(expected)

\* C3: whatever a re-encounter does with its conflicts (none found, raised,
\* resolved by a strategy, handed to the resolver), the conflicts it found
\* are exactly: kind iff the kinds differ; default iff compare_defaults and
\* both sides declare different defaults; annotation iff compare_annotations
\* and both sides declare different annotations.
C3_ConflictSetExact == [][C3_Step]_vars

\* A resolver is handed all three conflicts under prefer-last.
C3_Witness ==
    /\ pc = "resolver"
    /\ policy = "prefer-last"
    /\ conflict_types(call[1].conflicts) = ConflictTypes

\* One step checked for C4.
C4_Step ==
        on_conflict \in {"None", "raise"} =>
          /\ \A p \in Iterated :
               Iterates(p) =>
                 LET existing == accepted(p.name)
                     expected == ExpectedConflicts(existing, p)
                     raised == exception'[1]
                 IN  /\ MergeNoConflict(p) =>
                            expected = {} /\ pc' = "loop" /\ exception' = << >>
                     /\ MergeRaise(p) =>
                            /\ expected # {}
                            /\ pc' = "raised" /\ result' = << >>
                            /\ raised.type = "SignatureConflictError"
                            /\ raised.name = p.name
                            /\ Len(raised.parts) = Cardinality(expected)
                            /\ \A type \in expected :
                                 \E i \in 1..Len(raised.parts) :
                                    /\ raised.parts[i][1] = type
                                    /\ {raised.parts[i][2], raised.parts[i][4]}
                                         = {Attribute(existing, type), Attribute(p, type)}
          /\ (pc = "loop" /\ pc' = "raised" /\ exception'[1].type = "SignatureConflictError") =>
                \E p \in Iterated :
                    /\ ReEncounter(p)
                    /\ p.name = exception'[1].name
                    /\ ExpectedConflicts(accepted(p.name), p) # {}
          /\ pc = "raised" => (pc' = "raised" /\ result' = << >>)

\* C4: with on_conflict unset or "raise" a re-encounter raises
\* SignatureConflictError iff it has a conflict; the error names the
\* parameter and lists each conflict once with the values of both sides, and
\* no signature is returned.
C4_RaiseOnConflict == [][C4_Step]_vars

\* A merge without on_conflict raised on a parameter with two conflicts.
C4_Witness ==
    /\ pc = "raised"
    /\ on_conflict = "None"
    /\ exception[1].type = "SignatureConflictError"
    /\ Len(exception[1].parts) = 2
    /\ result = << >>

Primary(existing, incoming) == IF policy = "prefer-last" THEN incoming ELSE existing
Secondary(existing, incoming) == IF policy = "prefer-last" THEN existing ELSE incoming

\* attribute of the first side when it has one, else of the second side.
Backfilled(first, second, type) ==
    IF Attribute(first, type) # empty
    THEN Attribute(first, type) ELSE Attribute(second, type)

\* One step checked for C5.
C5_Step ==
    pc = "loop" =>
        \A p \in Iterated :
          (Iterates(p) /\ MergeNoConflict(p)) =>
            LET existing == accepted(p.name)
                primary == Primary(existing, p)
                secondary == Secondary(existing, p)
                merged == od_get(name_to_parameter', p.name)
            IN  /\ pc' = "loop"
                /\ merged.name = p.name
                /\ merged.kind = primary.kind
                /\ merged.default = Backfilled(primary, secondary, "default")
                /\ merged.annotation = Backfilled(primary, secondary, "annotation")
                /\ (existing.default # empty \/ p.default # empty)
                      => merged.default # empty
                /\ primary.default # empty => merged.default = primary.default
                /\ primary.annotation # empty
                      => merged.annotation = primary.annotation

\* C5: a re-encounter without conflicts accepts the primary side with its
\* default and annotation kept when present and else taken from the
\* secondary side; a default declared by either side is never dropped.
C5_BackfillNotOverride == [][C5_Step]_vars

DeclaredX == od_get(declared, "x")

\* Sources that differ in their defaults were merged without conflict under
\* prefer-first: the first default is kept and an annotation is present.
C5_Witness ==
    /\ pc = "loop"
    /\ on_conflict = "raise"
    /\ policy = "prefer-first"
    /\ DeclaredX.covered
    /\ DeclaredX.first_default = "1"
    /\ DeclaredX.last_default = "2"
    /\ accepted("x").default = "1"
    /\ accepted("x").annotation = "int"

\* The parameter x as the merge holds it, or as it was returned.
MergedX ==
    IF pc = "returned"
    THEN ReturnedParameters[CHOOSE i \in 1..Len(ReturnedParameters) :
                                ReturnedParameters[i].name = "x"]
    ELSE accepted("x")

Has(parameter) ==
    IF on_conflict = "prefer-annotated"
    THEN parameter.annotation # empty ELSE parameter.default # empty

Winner(existing, incoming) ==
    IF Has(existing) /\ ~Has(incoming) THEN existing
    ELSE IF Has(incoming) /\ ~Has(existing) THEN incoming
    ELSE IF policy = "prefer-last" THEN incoming ELSE existing

Loser(existing, incoming) ==
    IF Winner(existing, incoming) = existing THEN incoming ELSE existing

C7_Step ==
    pc = "loop" =>
        \A p \in Iterated :
          (Iterates(p) /\ MergeStrategy(p)) =>
            /\ pc' = "loop"
            /\ od_get(name_to_parameter', p.name).kind
                   = Winner(accepted(p.name), p).kind

\* C7: a conflict under prefer-annotated / prefer-defaulted is won by the
\* only side with an annotation / default, else by the side the policy
\* prefers, and the merge does not raise.
C7_StrategyPicksWinnerWithoutRaising == [][C7_Step]_vars

C8_Step ==
    pc = "loop" =>
        \A p \in Iterated :
          (Iterates(p) /\ MergeStrategy(p) /\ pc' = "loop") =>
            LET existing == accepted(p.name)
                conflicts == ExpectedConflicts(existing, p)
                winner == Winner(existing, p)
                loser == Loser(existing, p)
                merged == od_get(name_to_parameter', p.name)
            IN  /\ merged.name = p.name
                /\ merged.kind = winner.kind
                /\ \A type \in {"default", "annotation"} :
                      Attribute(merged, type) =
                          IF type \notin conflicts /\ Attribute(winner, type) = empty
                          THEN Attribute(loser, type)
                          ELSE Attribute(winner, type)

C9_Step ==
    /\ (pc = "loop" /\ on_conflict = "callable") =>
          \A p \in Iterated :
            Iterates(p) =>
              LET existing == accepted(p.name)
                  expected == ExpectedConflicts(existing, p)
              IN  /\ (pc' = "resolver" /\ call'[1].incoming = p) =>
                        /\ expected # {}
                        /\ call = << >>
                        /\ Len(call') = 1
                        /\ call'[1].name = p.name
                        /\ call'[1].existing = existing
                        /\ p.name \notin signature.names
                        /\ name_to_parameter' = name_to_parameter
                  /\ MergeNoConflict(p) =>
                        (expected = {} /\ pc' = "loop" /\ call' = << >>)
    /\ pc = "resolver" =>
          /\ on_conflict = "callable" /\ Len(call) = 1
          /\ call' = << >>
          /\ \A resolved \in Parameters :
                ResolverReturn(resolved) =>
                    IF resolved.name # call[1].name
                    THEN /\ pc' = "raised"
                         /\ exception'[1].type = "SignatureConflictError"
                    ELSE /\ pc' = "loop"
                         /\ od_get(name_to_parameter', call[1].name) = resolved
                         /\ od_get(buckets'[resolved.kind], call[1].name) = resolved
                         /\ call[1].name \in signature'.names
    /\ pc' = "resolver" => (pc = "loop" /\ on_conflict = "callable")

\* C9: the resolver is called once for each re-encounter with conflicts and
\* for no other, with the name, the accepted and the incoming parameter; a
\* result of another name raises SignatureConflictError, any other result
\* becomes the accepted parameter of the name.
C9_ResolverCalledOncePerConflict == [][C9_Step]_vars

\* A resolver result of another kind was accepted and moved bucket.
C9_Witness ==
    /\ pc = "loop"
    /\ on_conflict = "callable"
    /\ call = << >>
    /\ moved
    /\ ~DeclaredX.covered
    /\ "x" \in signature.names

C10_Step ==
    pc = "resolver" =>
        \A resolved \in {call[1].existing, call[1].incoming} :
          ResolverReturn(resolved) =>
            LET other == IF resolved = call[1].existing
                         THEN call[1].incoming ELSE call[1].existing
                conflicts == conflict_types(call[1].conflicts)
                merged == od_get(name_to_parameter', call[1].name)
            IN  \A type \in {"default", "annotation"} :
                  (type \notin conflicts /\ Attribute(resolved, type) = empty)
                     => Attribute(merged, type) = Attribute(other, type)

\* C10: when the resolver returns one of the two sides, a default /
\* annotation that was not in conflict and that this side lacks is taken
\* from the other side.
C10_ResolverResultBackfilled == [][C10_Step]_vars


\* The return annotation of the last of sources that declares one.
LastDeclaredReturn(sources) ==
    LET declaring == { i \in 1..Len(sources) : sources[i].return_annotation # empty }
    IN  IF declaring = {} THEN empty
        ELSE sources[CHOOSE i \in declaring : \A j \in declaring : j <= i].return_annotation

C11_Step ==
    /\ callables' # callables =>
          /\ pc' = "loop"
          /\ exception' = << >>
          /\ return_annotation' = LastDeclaredReturn(iterated'[1])
    /\ (pc = "loop" /\ pc' = "returned") =>
          result'[1].return_annotation = LastDeclaredReturn(iterated[1])

\* C11: the merged signature carries the return annotation of the last
\* source, in the given order, that declares one, and none when no source
\* does, under either policy; passing a source with another return
\* annotation than the one collected so far raises nothing.
C11_ReturnAnnotationOfLastDeclaring == [][C11_Step]_vars

\* Three sources returned: int, then str, then nothing declared.
C11_Witness ==
    /\ pc = "returned"
    /\ policy = "prefer-first"
    /\ Len(iterated[1]) = 3
    /\ iterated[1][1].return_annotation = "int"
    /\ iterated[1][2].return_annotation = "str"
    /\ iterated[1][3].return_annotation = empty
    /\ result[1].return_annotation = "str"


C12_Step ==
    (pc \in {"start", "combine"} /\ callables = 0) =>
        /\ pc' = "raised"
        /\ exception'[1].type = "ValueError"
        /\ exception'[1].reason \in {"requires at least one callable",
                                      "combine requires at least one callable"}
        /\ result' = << >> /\ wrapper' = << >>
        /\ UNCHANGED << merged_state, signature, iterated, return_annotation >>

\* C12: merge_signatures and combine called without a source raise
\* ValueError for the missing source at their first step, whatever the
\* options are (an unsupported policy or on_conflict is not reported), with
\* no source iterated, nothing merged and nothing returned.
C12_EmptyInputRaisesFirst == [][C12_Step]_vars

\* merge_signatures() with an unsupported policy reported the missing source.
C12_Witness ==
    /\ pc = "raised"
    /\ frame = "merge_signatures"
    /\ callables = 0
    /\ policy = "bogus"
    /\ on_conflict = "bogus"
    /\ exception[1].reason = "requires at least one callable"

\* Calls that cannot be bound to parameters: more positional values than
\* positional parameters, a keyword that names no parameter, a parameter
\* without default that receives nothing.
WrongArity(parameters, args) ==
    /\ \A i \in 1..Len(parameters) : parameters[i].kind # "VAR_POSITIONAL"
    /\ Len(args) > Cardinality({ i \in 1..Len(parameters) :
                                   parameters[i].kind \in PositionalKinds })

UnknownKeyword(parameters, kwargs) ==
    /\ \A i \in 1..Len(parameters) : parameters[i].kind # "VAR_KEYWORD"
    /\ \E key \in od_keys(kwargs) :
          \A i \in 1..Len(parameters) :
              parameters[i].name = key =>
                  parameters[i].kind \notin {"POSITIONAL_OR_KEYWORD", "KEYWORD_ONLY"}

MissingRequired(parameters, args, kwargs) ==
    \E i \in 1..Len(parameters) :
        /\ parameters[i].kind \notin VariadicKinds
        /\ parameters[i].default = empty
        /\ ~(parameters[i].kind \in PositionalKinds /\ i <= Len(args))
        /\ ~(parameters[i].kind # "POSITIONAL_ONLY" /\ od_has(kwargs, parameters[i].name))

BindingFails(parameters, args, kwargs) ==
    \/ WrongArity(parameters, args)
    \/ UnknownKeyword(parameters, kwargs)
    \/ MissingRequired(parameters, args, kwargs)

C13_Step ==
    /\ calls' = calls + 1 =>
          /\ wrapper'[1].invoked = << >>
          /\ BindingFails(merged_signature, wrapper'[1].args, wrapper'[1].kwargs) =>
                /\ pc' = "call_raised"
                /\ exception'[1].type = "TypeError"
    /\ (exception' # << >> /\ exception'[1].type = "SignatureConflictError") =>
          (pc' = "raised" /\ calls' = 0 /\ wrapper' = << >>)

\* C13: the first step of a call of the composite binds the arguments to
\* the merged signature and invokes no function; a call with too many
\* positional values, an unknown keyword or a missing required argument
\* raises TypeError in that step.  SignatureConflictError is raised while
\* combine runs, before the composite exists, and by no call of it.
C13_BindingComesFirst == [][C13_Step]_vars

\* A call of a composite of two functions failed for a missing argument.
C13_Witness ==
    /\ pc = "call_raised"
    /\ Len(iterated[1]) = 2
    /\ exception[1].reason = "missing a required argument"
    /\ MissingRequired(merged_signature, wrapper[1].args, wrapper[1].kwargs)
    /\ wrapper[1].invoked = << >>

InvokedFunctions == [ i \in 1..Len(wrapper[1].invoked) |-> wrapper[1].invoked[i].function ]

C14_Step ==
    (pc = "bound" /\ pc' # "bound") =>
        /\ pc' = "call_returned"
        /\ InvokedFunctions = [ i \in functions |-> i ]
        /\ wrapper[1].result = << ReturnValue(1) >>
        /\ wrapper' = wrapper

\* C14: a call of the composite that was bound to the merged signature
\* ends by returning the primary's return value, after every function was
\* invoked once, in the order the functions were given.
C14_EachInvokedOnceInOrder == [][C14_Step]_vars

\* The parameters of a function that take one value.
Declared(function) ==
    { signatures(function)[i].name : i \in { k \in 1..Len(signatures(function)) :
          signatures(function)[k].kind \notin VariadicKinds } }

C16_Step ==
    (pc = "bound" /\ Len(wrapper[1].invoked) < Len(iterated[1])) =>
        /\ pc' = "bound"
        /\ LET function == Len(wrapper[1].invoked) + 1
               received == wrapper'[1].invoked[function].arguments
           IN  \A n \in Declared(function) :
                   /\ od_has(received, n)
                   /\ od_get(received, n) = od_get(wrapper[1].arguments, n)

\* C16: every invocation of a function by a bound call of the composite
\* succeeds, and the function receives for each parameter that takes one
\* value the value the merged binding holds for the parameter's name.
C16_SliceBindsMergedValues == [][C16_Step]_vars

\* The keywords a function claims of those still unclaimed: the ones it
\* accepts by name, all of them when it has a variadic-keyword parameter.
Claims(function, key) ==
    \E i \in 1..Len(signatures(function)) :
        \/ signatures(function)[i].kind = "VAR_KEYWORD"
        \/ /\ signatures(function)[i].name = key
           /\ signatures(function)[i].kind \in {"POSITIONAL_OR_KEYWORD", "KEYWORD_ONLY"}

C15_Step ==
    (pc = "bound" /\ pc' = "bound") =>
        LET function == Len(wrapper[1].invoked) + 1
            offered == wrapper[1].remaining_kwargs
            known == wrapper'[1].invoked[function].known
            leftover == wrapper'[1].remaining_kwargs
        IN  /\ known = SelectSeq(offered, LAMBDA kv : Claims(function, kv[1]))
            /\ leftover = SelectSeq(offered, LAMBDA kv : ~Claims(function, kv[1]))
            /\ od_keys(known) \cap od_keys(leftover) = {}
            /\ od_keys(known) \cup od_keys(leftover) = od_keys(offered)
            /\ \A i \in 1..Len(wrapper[1].invoked) :
                   od_keys(wrapper[1].invoked[i].known) \cap od_keys(offered) = {}

\* C15: each function invoked by a call of the composite claims, of the
\* keywords no earlier function claimed, those it accepts by name, or all of
\* them when it has a variadic-keyword parameter; what it claims and what
\* it leaves partition what it was offered, and nothing an earlier function
\* claimed is offered to it.
C15_KeywordsSplitInOrder == [][C15_Step]_vars

\* The second function claimed a keyword the first one left over.
C15_Witness ==
    /\ pc = "call_returned"
    /\ Len(wrapper[1].invoked) = 2
    /\ Len(wrapper[1].kwargs) = 2
    /\ Len(wrapper[1].invoked[1].known) = 1
    /\ Len(wrapper[1].invoked[2].known) = 1
    /\ wrapper[1].invoked[1].known # wrapper[1].invoked[2].known

\* The keywords of the call that no function of the composite claims.
Unclaimed == { key \in od_keys(wrapper[1].kwargs) : \A f \in functions : ~Claims(f, key) }

\* C17: a call of the composite with a keyword that no function claims
\* fails with the TypeError for an unexpected keyword argument, which names
\* such a keyword and the name of the composite: the name override when
\* given, else the name of the primary.
C17_UnclaimedKeywordNamesComposite ==
    (pc \in {"call_returned", "call_raised"} /\ Unclaimed # {}) =>
        /\ pc = "call_raised"
        /\ exception[1].type = "TypeError"
        /\ exception[1].reason = "got an unexpected keyword argument"
        /\ exception[1].name \in Unclaimed
        /\ exception[1].parts = << function_name >>

\* The bound arguments of the call under the names a function declares, in
\* the order it declares them.
RECURSIVE DeclaredArguments(_, _)
DeclaredArguments(function, i) ==
    IF i > Len(signatures(function)) THEN << >>
    ELSE LET n == signatures(function)[i].name
         IN  (IF od_has(wrapper[1].arguments, n)
              THEN << <<n, od_get(wrapper[1].arguments, n)>> >> ELSE << >>)
             \o DeclaredArguments(function, i + 1)

\* The snapshot a function carries after the call it was invoked by.
CallVars(function) ==
    [args |-> wrapper[1].invoked[function].args,
     kwargs |-> wrapper[1].invoked[function].kwargs,
     arguments |-> DeclaredArguments(function, 1),
     result |-> ReturnValue(function)]

\* C18: after a call of the composite that returned, every function
\* carries a snapshot with the positional values and the keywords it was
\* invoked with, the bound arguments of the call under the names it
\* declares, and the value it returned.
C18_SnapshotAfterCall ==
    pc = "call_returned" =>
        \A f \in functions :
            /\ Len(snapshot[f]) = 1
            /\ snapshot[f][1].args = CallVars(f).args
            /\ snapshot[f][1].kwargs = CallVars(f).kwargs
            /\ snapshot[f][1].arguments = CallVars(f).arguments
            /\ snapshot[f][1].result = CallVars(f).result

C19_Step ==
    (pc = "bound" /\ pc' = "call_returned" /\ calls > 1) =>
        \A f \in functions :
            snapshot'[f] = << CallVars(f) >>

\* C19: a call of the composite that follows another one replaces the
\* snapshot of every function by the snapshot of this call; nothing of the
\* earlier call stays.
C19_SnapshotReplacedByEachCall == [][C19_Step]_vars

\* Signatures with the same parameters up to the values of their defaults
\* and the same return annotation, and with some default of another value.
DifferInDefaultValueOnly(left, right) ==
    /\ Len(left.parameters) = Len(right.parameters)
    /\ left.return_annotation = right.return_annotation
    /\ \A i \in 1..Len(left.parameters) :
          /\ left.parameters[i].name = right.parameters[i].name
          /\ left.parameters[i].kind = right.parameters[i].kind
          /\ left.parameters[i].annotation = right.parameters[i].annotation
          /\ (left.parameters[i].default = empty) = (right.parameters[i].default = empty)
    /\ \E i \in 1..Len(left.parameters) :
          left.parameters[i].default # right.parameters[i].default

\* Signatures one of which gives a default to a parameter where the other
\* does not.
DifferInDefaultPresence(left, right) ==
    \E i \in 1..Len(left.parameters) :
        /\ i <= Len(right.parameters)
        /\ (left.parameters[i].default = empty) # (right.parameters[i].default = empty)

\* C20: of two signatures that differ in the value of a default only,
\* same_signature returns False with strict=True and True with
\* strict=False; with strict=False it returns False when one signature
\* gives a parameter a default and the other does not.
C20_RelaxedIgnoresDefaultValues ==
    pc = "compared" =>
        LET c == compared[1]
        IN  /\ DifferInDefaultValueOnly(c.first, c.second) => c.same = << ~c.strict >>
            /\ (~c.strict /\ DifferInDefaultPresence(c.first, c.second)) =>
                   c.same = << FALSE >>

\* x=1 against x=2 compared with strict=False, both annotated and followed
\* by y.
C20_Witness ==
    /\ pc = "compared"
    /\ ~compared[1].strict
    /\ ~compared[1].ignore_annotations
    /\ Len(compared[1].first.parameters) = 2
    /\ DifferInDefaultValueOnly(compared[1].first, compared[1].second)
    /\ compared[1].first.parameters[1].annotation = "int"
    /\ compared[1].same = << TRUE >>

\* Signatures whose parameters differ in number, or at some position in
\* name or kind: another order, another kind or other names.
DifferInStructure(left, right) ==
    \/ Len(left.parameters) # Len(right.parameters)
    \/ \E i \in 1..Len(left.parameters) :
          \/ left.parameters[i].name # right.parameters[i].name
          \/ left.parameters[i].kind # right.parameters[i].kind

\* C21: same_signature returns False, with strict=True and with
\* strict=False, for two signatures that differ in the order, the kind or
\* the names of their parameters, also when only the order of their
\* keyword-only parameters differs.
C21_StructureDecidesBothModes ==
    (pc = "compared" /\ DifferInStructure(compared[1].first, compared[1].second)) =>
        compared[1].same = << FALSE >>

\* C30: whatever ignore_return and ignore_annotations are, two signatures
\* that same_signature accepts with strict=True it accepts with
\* strict=False.
C30_RelaxedAcceptsWhatStrictAccepts ==
    (pc = "compared" /\ compared[1].strict /\ compared[1].same = << TRUE >>) =>
        same_signature(compared[1].first, compared[1].second, FALSE,
                       compared[1].ignore_return, compared[1].ignore_annotations)

\* One step checked for C25.
C25_Step ==
    pc = "loop" =>
        \A p \in Iterated :
          Iterates(p) =>
            LET existing == accepted(p.name)
            IN  /\ MergeRaise(p) =>
                     \A i \in 1..Len(exception'[1].parts) :
                        LET part == exception'[1].parts[i]
                        IN  /\ part[2] = Attribute(existing, part[1])
                            /\ part[4] = Attribute(p, part[1])
                /\ ResolverCall(p) =>
                     \A i \in 1..Len(call'[1].conflicts) :
                        LET triple == call'[1].conflicts[i]
                        IN  /\ triple[2] = Attribute(existing, triple[1])
                            /\ triple[3] = Attribute(p, triple[1])

\* C25: in every conflict triple of a merge, in the message of
\* SignatureConflictError and in the tuple handed to a custom resolver, the
\* second element is the value of the existing parameter and the third the
\* value of the incoming parameter, under either policy.
C25_TriplesExistingThenIncoming == [][C25_Step]_vars


\* The number of entries the kind buckets hold for a name.
Holdings(name) ==
    { << kind, i >> \in Kinds \X (1..Cardinality(Names)) :
        i <= Len(buckets[kind]) /\ buckets[kind][i][1] = name }

\* Every accepted name is held once, in the bucket of its accepted kind, and
\* the buckets hold nothing else.
HeldOnce ==
    /\ \A kind \in Kinds : Len(buckets[kind]) <= Cardinality(Names)
    /\ \A name \in Names :
         IF od_has(name_to_parameter, name)
         THEN /\ Cardinality(Holdings(name)) = 1
              /\ od_has(buckets[accepted(name).kind], name)
              /\ od_get(buckets[accepted(name).kind], name) = accepted(name)
              /\ od_get(name_to_kind, name) = accepted(name).kind
         ELSE Holdings(name) = {}

\* One step checked for C26: a parameter that is iterated without an error
\* adds its name to the accepted names, and no name is ever dropped.
C26_Step ==
    /\ pc' # "raised" =>
          od_keys(name_to_parameter') =
              od_keys(name_to_parameter) \cup (signature'.names \ signature.names)
    /\ (pc = "loop" /\ pc' = "returned") =>
          /\ Len(result'[1].parameters) = Cardinality(od_keys(name_to_parameter))
          /\ { result'[1].parameters[i].name : i \in 1..Len(result'[1].parameters) }
                = od_keys(name_to_parameter)

\* C26: after any prefix of the sources every name declared so far is held
\* in exactly one kind bucket, the bucket of the kind of its accepted
\* parameter (a change of kind moves it), so the merged output lists each
\* declared name exactly once and no other name.
C26_EachNameInOneBucket ==
    /\ [](HeldOnce /\ (pc \in {"loop", "resolver"} =>
                          signature.names \subseteq od_keys(name_to_parameter)))
    /\ [][C26_Step]_vars

\* Two names are returned after conflict resolution moved one of them to
\* another bucket.
C26_Witness ==
    /\ pc = "returned"
    /\ moved
    /\ Len(ReturnedParameters) = 2
    /\ od_keys(name_to_parameter) = {"x", "y"}
    /\ HeldOnce


\* The options are valid, on_conflict is unset or a built-in strategy, and at
\* least one source was passed.
BuiltInMerge ==
    /\ policy \in Policies
    /\ on_conflict \in {"None"} \cup Strategies
    /\ exception # << >> => exception[1].reason # "requires at least one callable"

\* C27: for a non-empty list of well-formed sources, valid options and a
\* built-in on_conflict strategy, merge_signatures returns a signature or
\* fails with SignatureConflictError, never for another reason such as a
\* required positional parameter left after a defaulted one.
C27_OnlySignatureConflictError ==
    (pc = "raised" /\ BuiltInMerge) => exception[1].type = "SignatureConflictError"


\* Every function of the composite has been invoked by the current call.
AllInvoked ==
    /\ wrapper # << >>
    /\ Len(wrapper[1].invoked) = Len(iterated[1])

\* The keyword is among the keywords some invoked function claimed.
ClaimedBySome(keyword) ==
    \E j \in 1..Len(wrapper[1].invoked) :
        \E k \in 1..Len(wrapper[1].invoked[j].known) :
            wrapper[1].invoked[j].known[k] = keyword

\* C28: in a combine composite, whenever the call binds against the merged
\* signature, every keyword of the call is claimed by some source function:
\* after the last function no keyword is left over, and the composite's own
\* unexpected-keyword error is never raised once functions were invoked.
C28_NoLeftoverAfterBinding ==
    /\ (pc \in {"bound", "call_returned"} /\ AllInvoked) =>
          /\ wrapper[1].remaining_kwargs = << >>
          /\ \A k \in 1..Len(wrapper[1].kwargs) : ClaimedBySome(wrapper[1].kwargs[k])
    /\ pc = "call_raised" =>
          ~(/\ exception[1].reason = "got an unexpected keyword argument"
            /\ exception[1].parts = << function_name >>)

\* A call with two keywords returned after each of two functions claimed one
\* of them.
C28_Witness ==
    /\ pc = "call_returned"
    /\ AllInvoked
    /\ Len(wrapper[1].kwargs) = 2
    /\ Len(wrapper[1].invoked) = 2
    /\ Len(wrapper[1].invoked[1].known) = 1
    /\ Len(wrapper[1].invoked[2].known) = 1
    /\ wrapper[1].remaining_kwargs = << >>


\* The values the sources iterated so far declared for an attribute of a
\* name.
DeclaredValues(name, type) ==
    { Attribute(iterated[1][s].parameters[i], type) :
        << s, i >> \in { si \in (1..Len(iterated[1])) \X (1..Cardinality(Names)) :
                          /\ si[2] <= Len(iterated[1][si[1]].parameters)
                          /\ iterated[1][si[1]].parameters[si[2]].name = name } }
    \ {empty}

RaiseMode == on_conflict \in {"None", "raise"} /\ policy \in Policies

\* One step checked for C29: in the loop, merge_signatures fails with
\* SignatureConflictError only.
C29_Step ==
    (RaiseMode /\ pc = "loop" /\ callables > 0 /\ pc' = "raised") =>
        exception'[1].type = "SignatureConflictError"

\* C29: with on_conflict unset or "raise", no merge gets past two sources,
\* adjacent or not, that declare different defaults for a name when
\* compare_defaults is true, or different annotations when
\* compare_annotations is true: it fails with SignatureConflictError under
\* either policy, whatever the sources between them declare.
C29_DifferentDefaultsAlwaysRaise ==
    /\ [](RaiseMode =>
            \A name \in Names :
               /\ compare_defaults => Cardinality(DeclaredValues(name, "default")) <= 1
               /\ compare_annotations =>
                      Cardinality(DeclaredValues(name, "annotation")) <= 1)
    /\ [][C29_Step]_vars

\* Under prefer-last a third source raised on a default that differs from
\* the default of the first source, the second source declaring none.
C29_Witness ==
    /\ pc = "raised"
    /\ policy = "prefer-last"
    /\ compare_defaults
    /\ exception[1].type = "SignatureConflictError"
    /\ PartTypes(exception[1].parts) = {"default"}
    /\ Len(iterated[1]) = 3
    /\ Len(iterated[1][2].parameters) = 1
    /\ iterated[1][2].parameters[1].default = empty
    /\ DeclaredValues("x", "default") # {}


\* The calls of the proxy made without arguments, by their number.
ZeroArgCalls ==
    { i \in 1..Len(trace.returned) : trace.returned[i].overrides = << >> }

\* The invocations of the target made by calls without arguments.
ZeroArgInvocations ==
    { n \in 1..Len(trace.invoked) : trace.invoked[n].call \in ZeroArgCalls }

\* C22: over any sequence of calls of one proxy the target is invoked with
\* the pre-sliced arguments at most once by calls without arguments: the
\* first such call invokes it, and every call without arguments, first or
\* repeated, returns the result of that invocation.
C22_ZeroArgCallsInvokeOnce ==
    (pc = "proxy" /\ ZeroArgCalls # {}) =>
        /\ Cardinality(ZeroArgInvocations) = 1
        /\ \A n \in ZeroArgInvocations :
              /\ \A i \in ZeroArgCalls : trace.invoked[n].call <= i
              /\ trace.invoked[n].args = proxy[1].args
              /\ trace.invoked[n].kwargs = proxy[1].kw
              /\ \A i \in ZeroArgCalls :
                    trace.returned[i].value = trace.invoked[n].result

\* A call without arguments, an override call and a call without arguments
\* again: the target was invoked twice.
C22_Witness ==
    /\ pc = "proxy"
    /\ Len(trace.returned) = 3
    /\ ZeroArgCalls = {1, 3}
    /\ Len(trace.invoked) = 2
    /\ trace.returned[3].value = trace.returned[1].value

\* The keywords are the overrides laid over the pre-sliced keywords.
LaidOver(kwargs, kw, overrides) ==
    /\ od_keys(kwargs) = od_keys(kw) \cup od_keys(overrides)
    /\ Len(kwargs) = Cardinality(od_keys(kwargs))
    /\ \A key \in od_keys(kwargs) :
          od_get(kwargs, key) = IF od_has(overrides, key)
                                THEN od_get(overrides, key) ELSE od_get(kw, key)

\* One step checked for C23: a call of the proxy with overrides.
C23_Step ==
    (/\ pc = "proxy"
     /\ Len(trace'.returned) = Len(trace.returned) + 1
     /\ trace'.returned[Len(trace'.returned)].overrides # << >>) =>
        LET overrides == trace'.returned[Len(trace'.returned)].overrides
        IN  /\ Len(trace'.invoked) = Len(trace.invoked) + 1
            /\ \A n \in 1..Len(trace.invoked) : trace'.invoked[n] = trace.invoked[n]
            /\ trace'.invoked[Len(trace'.invoked)].args = proxy[1].args
            /\ LaidOver(trace'.invoked[Len(trace'.invoked)].kwargs,
                        proxy[1].kw, overrides)
            /\ trace'.returned[Len(trace'.returned)].value
                  = trace'.invoked[Len(trace'.invoked)].result
            /\ proxy'[1].cache = proxy[1].cache
            /\ proxy'[1].args = proxy[1].args
            /\ proxy'[1].kw = proxy[1].kw

\* C23: a call of a proxy with override keywords always invokes the target,
\* with the overrides laid over the pre-sliced keywords for that call only,
\* and leaves the cache as it was, empty or filled, and the pre-sliced
\* arguments of the proxy unchanged.
C23_OverridesBypassCache == [][C23_Step]_vars

\* An override call on an empty cache, a call without arguments, an
\* override call on the filled cache: the cache holds the second result.
C23_Witness ==
    /\ pc = "proxy"
    /\ Len(trace.returned) = 3
    /\ ZeroArgCalls = {2}
    /\ Len(trace.invoked) = 3
    /\ proxy[1].cache = << trace.returned[2].value >>
    /\ trace.returned[3].value # trace.returned[2].value

\* The last call of the proxy.
LastCall == trace.returned[Len(trace.returned)]

\* C24: every call of a proxy, answered from the cache or by invoking the
\* target, leaves the target's call snapshot describing that call: the
\* pre-sliced args, the keywords of the call (the pre-sliced ones, with the
\* overrides laid over them if any) and the result the call returned, which
\* for a call without arguments is the cached result.
C24_SnapshotDescribesEachCall ==
    (pc = "proxy" /\ trace.returned # << >>) =>
        /\ Len(snapshot[1]) = 1
        /\ snapshot[1][1].args = proxy[1].args
        /\ LaidOver(snapshot[1][1].kwargs, proxy[1].kw, LastCall.overrides)
        /\ snapshot[1][1].result = LastCall.value
        /\ LastCall.overrides = << >> =>
              /\ snapshot[1][1].kwargs = proxy[1].kw
              /\ proxy[1].cache = << snapshot[1][1].result >>
        /\ LastCall.overrides # << >> =>
              snapshot[1][1].result = trace.invoked[Len(trace.invoked)].result

\* After an override call, a call answered from the cache left a snapshot
\* with the pre-sliced keywords and the cached result.
C24_Witness ==
    /\ pc = "proxy"
    /\ Len(trace.returned) = 3
    /\ ZeroArgCalls = {1, 3}
    /\ snapshot[1] # << >>
    /\ snapshot[1][1].kwargs = proxy[1].kw
    /\ snapshot[1][1].result = trace.returned[1].value
    /\ snapshot[1][1].result # trace.invoked[Len(trace.invoked)].result

====
